---- MODULE Spec2Model ----
(***************************************************************************)
(* The markdown task ledger of src/task-functions: the record codec        *)
(* (parseTasks / formatTaskAsMarkdown), the id generator and the store     *)
(* operations (ensureTaskInfrastructure, createTask, toggleTaskCompletion, *)
(* updateTask) acting on one ledger path.                                  *)
(*                                                                         *)
(* A document is a sequence of text pieces; its text is their              *)
(* concatenation.  The literal pieces of the block template are single     *)
(* pieces, field values are sequences of one-character pieces (plus the    *)
(* few multi-character pieces named below).  The regular expressions of    *)
(* the code are evaluated over these pieces, with their lazy quantifiers   *)
(* and backtracking.  A backquote of the text is written ' in a piece.     *)
(***************************************************************************)
EXTENDS Integers, Sequences, FiniteSets, TLC

(* ------------------------------------------------------------------ *)
(* Text pieces                                                          *)
(* ------------------------------------------------------------------ *)
NL == "\n"
SP == " "
Indent4 == "    "
Indent6 == "      "
Header == "# Project Tasks"
Footer == "---\n*Managed by Task Master MCP*"
CheckOpen == "- ["
CheckClose == "] **"
IdOpen == "** '(ID: "
IdClose == ")'"
PriorityLabel == "- **Priority:** '"
DependenciesLabel == "- **Dependencies:** '"
CreatedLabel == "- **Created:** '"
DescriptionLabel == "- **Description:**"
Fence == "'''"
Tick == "'"
Comma == ","
NoneStr == "None"

LowerLetters == {"a", "b", "c", "d", "e", "f", "g", "t", "x"}
UpperLetters == {"A", "B"}
Digits == {"0", "1", "2", "3", "4", "5", "6", "7", "8", "9"}
PriorityWords == {"high", "medium", "low", "urgent"}

\* \s of the regular expressions and of String.prototype.trim
IsSpace(t) == t \in {SP, NL, Indent4, Indent6}

\* \w of the regular expressions (pieces made of word characters only)
IsWord(t) == t \in LowerLetters \cup UpperLetters \cup Digits \cup {"_"}
                   \cup PriorityWords \cup {NoneStr}

\* [\w-_] of the task expression
IsIdChar(t) == IsWord(t) \/ t = "-"

\* . of the regular expressions: anything but a line terminator
IsDot(t) == t \notin {NL, Footer}

\* a piece that is exactly one character
IsChar(t) == t \in LowerLetters \cup UpperLetters \cup Digits
                   \cup {"_", "-", ".", "!", SP, NL, Tick, Comma}

Range(seq) == {seq[k] : k \in 1..Len(seq)}

Min(S) == CHOOSE x \in S : \A y \in S : x <= y

(* ------------------------------------------------------------------ *)
(* core.ts                                                              *)
(* ------------------------------------------------------------------ *)
isValidPriority(priority) == priority \in {"high", "medium", "low"}

SlugMaxLen == 15
SuffixLen == 8

toLowerCase(s) ==
  [i \in 1..Len(s) |->
     CASE s[i] = "A" -> "a"
       [] s[i] = "B" -> "b"
       [] OTHER -> s[i]]

\* .replace(/[^a-z0-9\s]/g, ''): the underscore removed as well
StripSpecialAndUnderscore(s) ==
  SelectSeq(s, LAMBDA t : (IsWord(t) /\ t # "_") \/ IsSpace(t))

\* .replace(/[^\w\s]/g, '')
StripSpecial(s) == SelectSeq(s, LAMBDA t : IsWord(t) \/ IsSpace(t))

\* .replace(/\s+/g, '_')
RECURSIVE CollapseSpace(_)
CollapseSpace(s) ==
  IF s = <<>> THEN <<>>
  ELSE IF IsSpace(Head(s))
       THEN IF Len(s) > 1 /\ IsSpace(s[2])
            THEN CollapseSpace(Tail(s))
            ELSE <<"_">> \o CollapseSpace(Tail(s))
       ELSE <<Head(s)>> \o CollapseSpace(Tail(s))

Slice(s, n) == SubSeq(s, 1, IF Len(s) < n THEN Len(s) ELSE n)

generateTaskId(title, uuid) ==
  LET slug == Slice(CollapseSpace(StripSpecial(toLowerCase(title))), SlugMaxLen)
      uniqueId == Slice(uuid, SuffixLen)
  IN  slug \o <<"_">> \o uniqueId

Skeleton == <<Header, NL, NL, Footer, NL>>

(* ------------------------------------------------------------------ *)
(* task-manager.ts: formatTaskAsMarkdown and the document rebuilt by   *)
(* updateTask                                                           *)
(* ------------------------------------------------------------------ *)
RECURSIVE Join(_, _)
Join(parts, sep) ==
  IF parts = <<>> THEN <<>>
  ELSE IF Len(parts) = 1 THEN parts[1]
  ELSE parts[1] \o sep \o Join(Tail(parts), sep)

formatTaskAsMarkdown(task) ==
  LET checkbox == IF task.isCompleted THEN "x" ELSE SP
      dependenciesStr == IF Len(task.dependencies) > 0
                         THEN Join(task.dependencies, <<Comma, SP>>)
                         ELSE <<NoneStr>>
  IN  <<CheckOpen, checkbox, CheckClose>> \o task.title \o <<IdOpen>> \o task.id \o <<IdClose>>
      \o <<NL, Indent4, PriorityLabel, task.priority, Tick>>
      \o <<NL, Indent4, DependenciesLabel>> \o dependenciesStr \o <<Tick>>
      \o <<NL, Indent4, CreatedLabel>> \o task.created \o <<Tick>>
      \o <<NL, Indent4, DescriptionLabel, SP>>
      \o <<NL, Indent6, Fence>>
      \o <<NL, Indent6>> \o task.description
      \o <<NL, Indent6, Fence>>

Serialize(tasks) ==
  <<Header, NL, NL>>
  \o Join([i \in 1..Len(tasks) |-> formatTaskAsMarkdown(tasks[i])], <<NL, NL>>)
  \o <<NL, NL, Footer, NL>>

(* ------------------------------------------------------------------ *)
(* task-manager.ts: parseTasks.  taskRegex is matched piece by piece;  *)
(* every Match operator returns [ok |-> FALSE] or the captures of the  *)
(* rest of the expression and the position of its last piece.          *)
(* ------------------------------------------------------------------ *)
NoMatch == [ok |-> FALSE]

\* first position at or after p that holds no white space (Len(c)+1 if none)
RECURSIVE SkipSpace(_, _)
SkipSpace(c, p) ==
  IF p > Len(c) THEN p
  ELSE IF IsSpace(c[p]) THEN SkipSpace(c, p + 1) ELSE p

\* \s+ followed by the literal piece lit: the position of lit, or 0
SpaceThen(c, p, lit) ==
  LET q == SkipSpace(c, p)
  IN  IF q > p /\ q <= Len(c) /\ c[q] = lit THEN q ELSE 0

\* (.*?) followed by the literal piece lit: the positions lit can take, the
\* capture running from p and never over a line terminator
RECURSIVE LazyLineEnds(_, _, _)
LazyLineEnds(c, p, lit) ==
  IF p > Len(c) THEN {}
  ELSE (IF c[p] = lit THEN {p} ELSE {})
       \cup (IF IsDot(c[p]) THEN LazyLineEnds(c, p + 1, lit) ELSE {})

\* first position of the piece lit at or after p, or 0
RECURSIVE IndexOf(_, _, _)
IndexOf(c, lit, p) ==
  IF p > Len(c) THEN 0
  ELSE IF c[p] = lit THEN p ELSE IndexOf(c, lit, p + 1)

\* the first of the candidate positions (taken in increasing order) whose
\* attempt matched: what backtracking into a lazy quantifier finds
FirstMatch(tries) ==
  LET good == {t \in tries : t[2].ok}
  IN  IF good = {} THEN <<0, NoMatch>>
      ELSE CHOOSE t \in good : \A u \in good : t[1] <= u[1]

\* String.prototype.trim
RECURSIVE TrimStart(_)
TrimStart(s) ==
  IF s # <<>> /\ IsSpace(Head(s)) THEN TrimStart(Tail(s)) ELSE s

RECURSIVE TrimEnd(_)
TrimEnd(s) ==
  IF s # <<>> /\ IsSpace(s[Len(s)]) THEN TrimEnd(SubSeq(s, 1, Len(s) - 1)) ELSE s

Trim(s) == TrimEnd(TrimStart(s))

\* String.prototype.split(',')
RECURSIVE Split(_, _)
Split(s, sep) ==
  LET i == IndexOf(s, sep, 1)
  IN  IF i = 0 THEN <<s>>
      ELSE <<SubSeq(s, 1, i - 1)>> \o Split(SubSeq(s, i + 1, Len(s)), sep)

\* a match of the rest of the expression with one more capture
Capture(rest, name, value) ==
  IF rest.ok THEN (name :> value) @@ rest ELSE NoMatch

\* the same for a lazy capture: t is <<position of the closing piece, match of
\* the rest>> and the capture runs from position from up to the closing piece
CaptureUpTo(t, name, c, from) ==
  Capture(t[2], name, SubSeq(c, from, t[1] - 1))

\* \s+- \*\*Description:\*\*\s+```\s+([\s\S]*?)```
MatchDescription(c, p) ==
  LET l == SpaceThen(c, p, DescriptionLabel)
      f == IF l = 0 THEN 0 ELSE SpaceThen(c, l + 1, Fence)
      r == IF f = 0 THEN 0 ELSE SkipSpace(c, f + 1)
      closing == IF f = 0 \/ r = f + 1 THEN 0 ELSE IndexOf(c, Fence, r)
  IN  IF closing = 0 THEN NoMatch
      ELSE [ok |-> TRUE, end |-> closing, description |-> SubSeq(c, r, closing - 1)]

\* \s+- \*\*Created:\*\* `(.*?)` and the rest
MatchCreated(c, p) ==
  LET l == SpaceThen(c, p, CreatedLabel)
  IN  IF l = 0 THEN NoMatch
      ELSE CaptureUpTo(FirstMatch({<<e, MatchDescription(c, e + 1)>> :
                                     e \in LazyLineEnds(c, l + 1, Tick)}),
                       "created", c, l + 1)

\* \s+- \*\*Dependencies:\*\* `(.*?)` and the rest
MatchDependencies(c, p) ==
  LET l == SpaceThen(c, p, DependenciesLabel)
  IN  IF l = 0 THEN NoMatch
      ELSE CaptureUpTo(FirstMatch({<<e, MatchCreated(c, e + 1)>> :
                                     e \in LazyLineEnds(c, l + 1, Tick)}),
                       "dependencies", c, l + 1)

\* \s+- \*\*Priority:\*\* `(high|medium|low)` and the rest
MatchPriority(c, p) ==
  LET l == SpaceThen(c, p, PriorityLabel)
  IN  IF l = 0 \/ l + 2 > Len(c) THEN NoMatch
      ELSE IF c[l + 1] \notin {"high", "medium", "low"} \/ c[l + 2] # Tick THEN NoMatch
      ELSE Capture(MatchDependencies(c, l + 3), "priority", c[l + 1])

\* first position at or after p that holds no character of [\w-_]
RECURSIVE SkipIdChars(_, _)
SkipIdChars(c, p) ==
  IF p > Len(c) THEN p
  ELSE IF IsIdChar(c[p]) THEN SkipIdChars(c, p + 1) ELSE p

\* ([\w-_]+)\)` and the rest; p is the position of the first id character
MatchId(c, p) ==
  LET q == SkipIdChars(c, p)
  IN  IF q = p \/ q > Len(c) THEN NoMatch
      ELSE IF c[q] # IdClose THEN NoMatch
      ELSE Capture(MatchPriority(c, q + 1), "id", SubSeq(c, p, q - 1))

\* taskRegex tried at position i: - \[([ x])\] \*\*(.*?)\*\* `\(ID: and the rest
MatchTaskAt(c, i) ==
  IF i + 2 > Len(c) THEN NoMatch
  ELSE IF c[i] # CheckOpen \/ c[i + 1] \notin {SP, "x"} \/ c[i + 2] # CheckClose THEN NoMatch
  ELSE Capture(CaptureUpTo(FirstMatch({<<e, MatchId(c, e + 1)>> :
                                         e \in LazyLineEnds(c, i + 3, IdOpen)}),
                           "title", c, i + 3),
               "status", c[i + 1])

\* lines 28-45: the task of one match, or nothing when a capture is empty
TaskOfMatch(m) ==
  IF m.title # <<>> /\ m.id # <<>> /\ m.dependencies # <<>>
     /\ m.created # <<>> /\ m.description # <<>>
  THEN LET dependencyArray ==
             IF m.dependencies = <<NoneStr>> THEN <<>>
             ELSE LET parts == Split(m.dependencies, Comma)
                  IN  SelectSeq([k \in 1..Len(parts) |-> Trim(parts[k])],
                                LAMBDA dep : dep # <<>>)
       IN  <<[id |-> m.id, title |-> m.title, isCompleted |-> (m.status = "x"),
              priority |-> m.priority, dependencies |-> dependencyArray,
              created |-> m.created, description |-> Trim(m.description)]>>
  ELSE <<>>

\* the exec loop: leftmost match at or after position i, then on from its end
RECURSIVE ExecFrom(_, _)
RECURSIVE ExecNext(_, _, _)
ExecFrom(c, i) ==
  LET s == IndexOf(c, CheckOpen, i)
  IN  IF s = 0 THEN <<>> ELSE ExecNext(c, s, MatchTaskAt(c, s))

\* m is the attempt at position s
ExecNext(c, s, m) ==
  IF m.ok THEN TaskOfMatch(m) \o ExecFrom(c, m.end + 1)
  ELSE ExecFrom(c, s + 1)

\* a file is [exists |-> BOOLEAN, content |-> document]
parseTasks(file) ==
  IF ~file.exists THEN <<>> ELSE ExecFrom(file.content, 1)

(* ------------------------------------------------------------------ *)
(* task-manager.ts: the text patch of toggleTaskCompletion             *)
(* ------------------------------------------------------------------ *)
\* taskId spliced into the expression unescaped: "." stands for any character
\* of a line, every other character for itself
PatternAt(c, p, pat) ==
  /\ p + Len(pat) - 1 <= Len(c)
  /\ \A k \in 1..Len(pat) :
       IF pat[k] = "." THEN IsDot(c[p + k - 1]) /\ IsChar(c[p + k - 1])
       ELSE c[p + k - 1] = pat[k]

\* idPattern tried at position i: - \[([ x])\] \*\*.*?\*\* `\(ID: ${taskId}\)`
\* the position of its last piece, or 0
MatchIdPatternAt(c, i, pat) ==
  IF i + 2 > Len(c) THEN 0
  ELSE IF c[i] # CheckOpen \/ c[i + 1] \notin {SP, "x"} \/ c[i + 2] # CheckClose THEN 0
  ELSE LET ends == {e \in LazyLineEnds(c, i + 3, IdOpen) :
                      /\ PatternAt(c, e + 1, pat)
                      /\ e + Len(pat) + 1 <= Len(c)
                      /\ c[e + Len(pat) + 1] = IdClose}
       IN  IF ends = {} THEN 0 ELSE Min(ends) + Len(pat) + 1

\* content.replace(idPattern, ...) with the g flag: every match from the left,
\* the first checkbox of each match set to newStatus
RECURSIVE ReplaceFrom(_, _, _, _)
ReplaceFrom(c, i, pat, newStatus) ==
  LET s == IndexOf(c, CheckOpen, i)
  IN  IF s = 0 THEN c
      ELSE LET end == MatchIdPatternAt(c, s, pat)
           IN  IF end = 0 THEN ReplaceFrom(c, s + 1, pat, newStatus)
               ELSE ReplaceFrom([c EXCEPT ![s + 1] = newStatus], end + 1, pat, newStatus)

(* ------------------------------------------------------------------ *)
(* task-manager.ts: the object spread of updateTask.  updates is the   *)
(* sequence of the <<key, value>> entries of the object.               *)
(* ------------------------------------------------------------------ *)
HasKey(updates, key) == \E k \in 1..Len(updates) : updates[k][1] = key

ValueOf(updates, key) ==
  updates[CHOOSE k \in 1..Len(updates) :
            /\ updates[k][1] = key
            /\ \A j \in (k + 1)..Len(updates) : updates[j][1] # key][2]

\* the spread without the two trailing entries id: task.id, created: task.created
SpreadOverwriting(task, updates) ==
  [key \in DOMAIN task |->
     IF HasKey(updates, key) THEN ValueOf(updates, key) ELSE task[key]]

Spread(task, updates) ==
  [key \in DOMAIN task |->
     IF key \in {"id", "created"} THEN task[key]
     ELSE IF HasKey(updates, key) THEN ValueOf(updates, key)
     ELSE task[key]]

\* findIndex with a predicate that holds of every task (t => t.id = taskId)
FindIndexAny(tasks, taskId) == IF tasks = <<>> THEN 0 ELSE 1

\* tasks.findIndex(t => t.id === taskId), 0 for -1
FindIndex(tasks, taskId) ==
  IF \E k \in 1..Len(tasks) : tasks[k].id = taskId
  THEN Min({k \in 1..Len(tasks) : tasks[k].id = taskId})
  ELSE 0

\* content.indexOf('---\n*Managed by Task Master MCP*'), 0 for -1
FooterPosition(c) == IndexOf(c, Footer, 1)

(* ------------------------------------------------------------------ *)
(* Inputs                                                               *)
(* ------------------------------------------------------------------ *)
MaxTasks == 2

Titles == {<<"a">>}

UUIDs == { <<"8", "a", "5", "b", "4", "f", "0", "0", "-">>,
           <<"b", "a", "6", "5", "3", "b", "f", "e", "-">> }

Timestamps == {<<"2025-04-12T16:47:17.947Z">>}

\* the arguments of createTask: a plain task, and one with an empty
\* description and a priority outside the enum
CreateRequests ==
  { [title |-> <<"a">>, description |-> <<"d">>, priority |-> "high",
     dependencies |-> <<>>],
    [title |-> <<"a">>, description |-> <<>>, priority |-> "urgent",
     dependencies |-> <<>>] }

\* the fields argument of updateTask: a new title next to entries for id
\* and created, or an empty description
UpdateRequests ==
  << << <<"id", <<"z">>>>, <<"created", <<"1970-01-01T00:00:00.000Z">>>>,
        <<"title", <<"c">>>> >>,
     << <<"description", <<>>>> >> >>

\* the ids generateTaskId gives the title with each uuid
FirstId == generateTaskId(<<"a">>, <<"8", "a", "5", "b", "4", "f", "0", "0", "-">>)

SecondId == generateTaskId(<<"a">>, <<"b", "a", "6", "5", "3", "b", "f", "e", "-">>)

\* an id with its last character replaced by "."
Wildcard(id) == [id EXCEPT ![Len(id)] = "."]

\* the taskId argument of toggleTaskCompletion: an id the generator can
\* produce (in the ledger or not), and one that no block carries, ending in "."
TaskIdArgs == {FirstId, Wildcard(SecondId)}

\* the taskId argument of updateTask (in the ledger or not)
UpdateIds == {FirstId}

(* ------------------------------------------------------------------ *)
(* State                                                                *)
(* ------------------------------------------------------------------ *)
VARIABLES
  file,     \* the ledger path: [exists, content]
  before,   \* the ledger path when the last operation was called
  last,     \* the last operation: its name, arguments and outcome
  input,    \* the task list handed to the codec
  output,   \* what the codec read back: [done, tasks]
  calls,    \* the calls in flight: what each has read, and the order of steps
  env,      \* process.env.DEFAULT_PRIORITY when the module was loaded
  server    \* main.ts: the transport variable, the connections, the last reply

vars == <<file, before, last, input, output, calls, env, server>>

storeVars == <<file, before, last>>
codecVars == <<input, output>>
hostVars == <<env, server>>

NoFile == [exists |-> FALSE, content |-> <<>>]

NoTask == [id |-> <<>>, title |-> <<>>, isCompleted |-> FALSE, priority |-> "",
           dependencies |-> <<>>, created |-> <<>>, description |-> <<>>]

Call(op, taskId, flag, updates, task, ret) ==
  [op |-> op, taskId |-> taskId, flag |-> flag, updates |-> updates,
   task |-> task, ret |-> ret]

NumBlocks(c) == Cardinality({k \in 1..Len(c) : c[k] = CheckOpen})

NotRun == [done |-> FALSE, tasks |-> <<>>]

NoCalls ==
  [create |-> [pc |-> "idle", content |-> <<>>, task |-> NoTask],
   update |-> [pc |-> "idle", tasks |-> <<>>, taskId |-> <<>>, updates |-> <<>>,
               ret |-> "none"],
   toggle |-> [pc |-> "idle", content |-> <<>>, taskId |-> <<>>,
               isCompleted |-> FALSE, ret |-> "none"],
   order |-> <<>>]

\* a request that has not been answered, and a process started without
\* DEFAULT_PRIORITY in its environment and without a connection so far
NoReply == [status |-> "none", to |-> 0, seen |-> 0, open |-> {}]

NoServer == [transport |-> 0, opened |-> 0, open |-> {}, reply |-> NoReply]

\* the value that stands for undefined: a variable that is not set, an
\* argument left out of the call
Undefined == "undefined"

InitHost ==
  /\ env = Undefined
  /\ server = NoServer

InitStore ==
  /\ file = NoFile
  /\ before = NoFile
  /\ last = Call("none", <<>>, FALSE, <<>>, NoTask, "void")

Init ==
  /\ InitStore
  /\ input = <<>>
  /\ output = NotRun
  /\ calls = NoCalls
  /\ InitHost

(* ------------------------------------------------------------------ *)
(* Operations                                                           *)
(* ------------------------------------------------------------------ *)
\* a bootstrap that writes the skeleton whether or not the file exists
ensureTaskInfrastructureOverwriting ==
  /\ before' = file
  /\ file' = [exists |-> TRUE, content |-> Skeleton]
  /\ last' = Call("ensureTaskInfrastructure", <<>>, FALSE, <<>>, NoTask, "void")
  /\ UNCHANGED <<codecVars, calls, hostVars>>

ensureTaskInfrastructure ==
  /\ before' = file
  /\ file' = IF ~file.exists THEN [exists |-> TRUE, content |-> Skeleton] ELSE file
  /\ last' = Call("ensureTaskInfrastructure", <<>>, FALSE, <<>>, NoTask, "void")
  /\ UNCHANGED <<codecVars, calls, hostVars>>

\* the document createTask writes for a content it has read
Splice(content, task) ==
  LET footerPosition == FooterPosition(content)
  IN  IF footerPosition = 0
      THEN content \o <<NL, NL>> \o formatTaskAsMarkdown(task)
      ELSE SubSeq(content, 1, footerPosition - 1)
           \o <<NL>> \o formatTaskAsMarkdown(task) \o <<NL, NL>>
           \o SubSeq(content, footerPosition, Len(content))

\* process.env.DEFAULT_PRIORITY || 'medium'
DEFAULT_PRIORITY == IF env \in {Undefined, ""} THEN "medium" ELSE env

\* the parameter default: priority: string = DEFAULT_PRIORITY
PriorityParameter(priority) ==
  IF priority = Undefined THEN DEFAULT_PRIORITY ELSE priority

\* a createTask that takes the priority as it comes
unvalidatedPriority(priority) == priority

\* line 83: isValidPriority(priority) ? priority : DEFAULT_PRIORITY
validPriority(priority) ==
  IF isValidPriority(PriorityParameter(priority))
  THEN PriorityParameter(priority) ELSE DEFAULT_PRIORITY

NewTask(title, description, priority, dependencies, uuid, now) ==
  [id |-> generateTaskId(title, uuid),
   title |-> title,
   description |-> description,
   priority |-> validPriority(priority),
   dependencies |-> dependencies,
   isCompleted |-> FALSE,
   created |-> now]

\* createTask writing the skeleton first when the file is missing
createTaskBootstrapping(title, description, priority, dependencies, uuid, now) ==
  \E task \in {NewTask(title, description, priority, dependencies, uuid, now)} :
    /\ NumBlocks(file.content) < MaxTasks
    /\ before' = file
    /\ file' = [exists |-> TRUE,
                content |-> Splice(IF file.exists THEN file.content ELSE Skeleton, task)]
    /\ last' = Call("createTask", <<>>, FALSE, << <<"priority", priority>> >>,
                    task, "task")
    /\ UNCHANGED <<codecVars, calls, hostVars>>

createTask(title, description, priority, dependencies, uuid, now) ==
  \E task \in {NewTask(title, description, priority, dependencies, uuid, now)} :
    /\ before' = file
    /\ IF ~file.exists
       THEN /\ file' = file
            /\ last' = Call("createTask", <<>>, FALSE,
                            << <<"priority", priority>> >>, task, "throws")
       ELSE /\ NumBlocks(file.content) < MaxTasks
            /\ file' = [exists |-> TRUE, content |-> Splice(file.content, task)]
            /\ last' = Call("createTask", <<>>, FALSE, << <<"priority", priority>> >>,
                    task, "task")
    /\ UNCHANGED <<codecVars, calls, hostVars>>

toggleTaskCompletion(taskId, isCompleted) ==
  \E newContent \in {ReplaceFrom(file.content, 1, taskId,
                                 IF isCompleted THEN "x" ELSE SP)} :
    /\ before' = file
    /\ IF ~file.exists
       THEN /\ file' = file
            /\ last' = Call("toggleTaskCompletion", taskId, isCompleted, <<>>,
                            NoTask, "throws")
       ELSE IF newContent = file.content
       THEN /\ file' = file
            /\ last' = Call("toggleTaskCompletion", taskId, isCompleted, <<>>,
                            NoTask, "false")
       ELSE /\ file' = [exists |-> TRUE, content |-> newContent]
            /\ last' = Call("toggleTaskCompletion", taskId, isCompleted, <<>>,
                            NoTask, "true")
    /\ UNCHANGED <<codecVars, calls, hostVars>>

\* lines 227-243: the list with the record at taskIndex replaced
UpdatedTasks(tasks, taskIndex, updates) ==
  [k \in 1..Len(tasks) |->
     IF k = taskIndex THEN Spread(tasks[k], updates) ELSE tasks[k]]

\* updateTask reading the file itself (fs.readFile) before it parses
updateTaskReadingFile(taskId, updates) ==
  \E tasks \in {parseTasks(file)} :
    \E taskIndex \in {FindIndex(tasks, taskId)} :
      /\ before' = file
      /\ IF ~file.exists
         THEN /\ file' = file
              /\ last' = Call("updateTask", taskId, FALSE, updates, NoTask, "throws")
         ELSE IF taskIndex = 0
         THEN /\ file' = file
              /\ last' = Call("updateTask", taskId, FALSE, updates, NoTask, "false")
         ELSE /\ file' = [exists |-> TRUE,
                          content |-> Serialize(UpdatedTasks(tasks, taskIndex, updates))]
              /\ last' = Call("updateTask", taskId, FALSE, updates, NoTask, "true")
      /\ UNCHANGED <<codecVars, calls, hostVars>>

updateTask(taskId, updates) ==
  \E tasks \in {parseTasks(file)} :
    \E taskIndex \in {FindIndex(tasks, taskId)} :
      /\ before' = file
      /\ IF taskIndex = 0
         THEN /\ file' = file
              /\ last' = Call("updateTask", taskId, FALSE, updates, NoTask, "false")
         ELSE /\ file' = [exists |-> TRUE,
                          content |-> Serialize(UpdatedTasks(tasks, taskIndex, updates))]
              /\ last' = Call("updateTask", taskId, FALSE, updates, NoTask, "true")
      /\ UNCHANGED <<codecVars, calls, hostVars>>

\* getNextTask: the filters, the sort and the first element
priorityOrder(priority) ==
  CASE priority = "high" -> 3
    [] priority = "medium" -> 2
    [] priority = "low" -> 1

\* the ids of all tasks, completed or not
allTaskIds(tasks) == {tasks[k].id : k \in 1..Len(tasks)}

\* the ids of no task: the completed list left empty
noTaskIds(tasks) == {}

completedTaskIds(tasks) ==
  {tasks[k].id : k \in {j \in 1..Len(tasks) : tasks[j].isCompleted}}

\* a filter that keeps every uncompleted task
DependenciesIgnored(task, completed) == TRUE

\* dependencies.every(depId => !depId || depId.trim() === '' || includes)
DependenciesCompleted(task, completed) ==
  \/ task.dependencies = <<>>
  \/ \A k \in 1..Len(task.dependencies) :
       \/ task.dependencies[k] = <<>>
       \/ Trim(task.dependencies[k]) = <<>>
       \/ Trim(task.dependencies[k]) \in completed

\* an insertion that puts a task before the tasks of its own rank
RECURSIVE InsertBeforeEqual(_, _)
InsertBeforeEqual(sorted, task) ==
  IF sorted = <<>> THEN <<task>>
  ELSE IF priorityOrder(task.priority) - priorityOrder(Head(sorted).priority) >= 0
  THEN <<task>> \o sorted
  ELSE <<Head(sorted)>> \o InsertBeforeEqual(Tail(sorted), task)

\* Array.prototype.sort with the comparator
\* priorityOrder[b.priority] - priorityOrder[a.priority]; the sort is stable
RECURSIVE InsertByPriority(_, _)
InsertByPriority(sorted, task) ==
  IF sorted = <<>> THEN <<task>>
  ELSE IF priorityOrder(task.priority) - priorityOrder(Head(sorted).priority) > 0
  THEN <<task>> \o sorted
  ELSE <<Head(sorted)>> \o InsertByPriority(Tail(sorted), task)

\* no sort: the tasks in document order
Unsorted(tasks) == tasks

RECURSIVE SortByPriority(_)
SortByPriority(tasks) ==
  IF tasks = <<>> THEN <<>>
  ELSE InsertByPriority(SortByPriority(SubSeq(tasks, 1, Len(tasks) - 1)),
                        tasks[Len(tasks)])

\* the first filter alone
uncompletedTasks(tasks) == SelectSeq(tasks, LAMBDA t : ~t.isCompleted)

tasksWithCompletedDeps(tasks) ==
  SelectSeq(SelectSeq(tasks, LAMBDA t : ~t.isCompleted),
         LAMBDA t : DependenciesCompleted(t, completedTaskIds(tasks)))

\* the task returned, as a list of one, or the empty list for null
NextOf(tasks) ==
  LET sortedTasks == SortByPriority(tasksWithCompletedDeps(tasks))
  IN  IF sortedTasks = <<>> THEN <<>> ELSE <<sortedTasks[1]>>

\* getNextTask behind a bootstrap of the file, as the listTasks tool reads
getNextTaskEnsuring ==
  \E found \in {NextOf(parseTasks(file))} :
    /\ before' = file
    /\ file' = IF ~file.exists THEN [exists |-> TRUE, content |-> Skeleton] ELSE file
    /\ last' = IF found = <<>>
               THEN Call("getNextTask", <<>>, FALSE, <<>>, NoTask, "null")
               ELSE Call("getNextTask", <<>>, FALSE, <<>>, found[1], "task")
    /\ UNCHANGED <<codecVars, calls, hostVars>>

getNextTask ==
  \E found \in {NextOf(parseTasks(file))} :
    /\ before' = file
    /\ file' = file
    /\ last' = IF found = <<>>
               THEN Call("getNextTask", <<>>, FALSE, <<>>, NoTask, "null")
               ELSE Call("getNextTask", <<>>, FALSE, <<>>, found[1], "task")
    /\ UNCHANGED <<codecVars, calls, hostVars>>

Next ==
  \/ ensureTaskInfrastructure
  \/ \E r \in CreateRequests, uuid \in UUIDs, now \in Timestamps :
       createTask(r.title, r.description, r.priority, r.dependencies, uuid, now)
  \/ \E taskId \in TaskIdArgs, isCompleted \in BOOLEAN :
       toggleTaskCompletion(taskId, isCompleted)
  \/ \E taskId \in UpdateIds, k \in 1..Len(UpdateRequests) :
       updateTask(taskId, UpdateRequests[k])

Spec == Init /\ [][Next]_vars

(* ------------------------------------------------------------------ *)
(* Creation on its own: the ledger is bootstrapped and tasks are added, *)
(* with descriptions that may hold any text, the footer line included   *)
(* ------------------------------------------------------------------ *)
SentinelRequests ==
  { [title |-> <<"a">>, description |-> <<Footer>>, priority |-> "low",
     dependencies |-> <<>>],
    [title |-> <<"b">>, description |-> <<"d", Footer>>, priority |-> "medium",
     dependencies |-> <<>>] }

\* a call that leaves the priority out
DefaultRequests ==
  { [title |-> <<"b">>, description |-> <<"d">>, priority |-> Undefined,
     dependencies |-> <<>>] }

NextCreate ==
  \/ ensureTaskInfrastructure
  \/ \E r \in CreateRequests \cup SentinelRequests \cup DefaultRequests,
        uuid \in UUIDs,
        now \in Timestamps :
       createTask(r.title, r.description, r.priority, r.dependencies, uuid, now)

SpecCreate == Init /\ [][NextCreate]_vars

(* ------------------------------------------------------------------ *)
(* The codec on its own: a task list is written as updateTask writes   *)
(* a document (lines 245-250) and read back by parseTasks.             *)
(* ------------------------------------------------------------------ *)
MaxListLen == 2

\* task values as createTask and updateTask build them: generated ids, one
\* line of description or an empty one, a dependency on the other id
TaskValues ==
  { [id |-> generateTaskId(<<"a">>, uuid),
     title |-> <<"a">>,
     isCompleted |-> done,
     priority |-> IF done THEN "high" ELSE "low",
     dependencies |-> IF done THEN <<>>
                      ELSE << generateTaskId(<<"a">>, <<"8", "a", "5", "b", "4", "f", "0", "0">>) >>,
     created |-> now,
     description |-> description] :
    uuid \in UUIDs, done \in BOOLEAN, now \in Timestamps,
    description \in {<<"d">>, <<>>} }

RECURSIVE ListsUpTo(_, _)
ListsUpTo(S, n) ==
  IF n = 0 THEN {<<>>}
  ELSE LET shorter == ListsUpTo(S, n - 1)
       IN  shorter \cup {Append(l, x) : l \in shorter, x \in S}

InitCodec ==
  /\ InitStore
  /\ input \in ListsUpTo(TaskValues, MaxListLen)
  /\ output = NotRun
  /\ calls = NoCalls
  /\ InitHost

WriteDocument ==
  /\ ~file.exists
  /\ before' = file
  /\ file' = [exists |-> TRUE, content |-> Serialize(input)]
  /\ last' = Call("serialize", <<>>, FALSE, <<>>, NoTask, "void")
  /\ UNCHANGED <<codecVars, calls, hostVars>>

ReadDocument ==
  /\ file.exists
  /\ ~output.done
  /\ output' = [done |-> TRUE, tasks |-> parseTasks(file)]
  /\ UNCHANGED <<storeVars, input, calls, hostVars>>

NextCodec == WriteDocument \/ ReadDocument

SpecCodec == InitCodec /\ [][NextCodec]_vars

(* ------------------------------------------------------------------ *)
(* Selection on its own: getNextTask reads a ledger of up to            *)
(* MaxNextLen tasks, as updateTask writes it                            *)
(* ------------------------------------------------------------------ *)
MaxNextLen == 3

\* the id of the task at each place of the ledger, and an id no task has
NextIds == << <<"a">>, <<"b">>, <<"c">>, <<"d">>, <<"e">> >>

GhostId == <<"g">>

\* priority, dependencies and completion of a task: pending and completed
\* tasks of each rank, tasks waiting for the first task, for a task that
\* does not exist, and for both
NextAttrs ==
  { [priority |-> "high", dependencies |-> <<>>, isCompleted |-> FALSE],
    [priority |-> "high", dependencies |-> <<>>, isCompleted |-> TRUE],
    [priority |-> "medium", dependencies |-> <<>>, isCompleted |-> FALSE],
    [priority |-> "low", dependencies |-> <<>>, isCompleted |-> FALSE],
    [priority |-> "low", dependencies |-> <<>>, isCompleted |-> TRUE],
    [priority |-> "high", dependencies |-> <<NextIds[1]>>, isCompleted |-> FALSE],
    [priority |-> "medium", dependencies |-> <<NextIds[1]>>, isCompleted |-> TRUE],
    [priority |-> "high", dependencies |-> <<GhostId>>, isCompleted |-> FALSE],
    [priority |-> "medium", dependencies |-> <<NextIds[1], GhostId>>,
     isCompleted |-> FALSE] }

NextTask(k, attr, now) ==
  [id |-> NextIds[k], title |-> <<"t">>, isCompleted |-> attr.isCompleted,
   priority |-> attr.priority, dependencies |-> attr.dependencies,
   created |-> now, description |-> <<"d">>]

NextLedgers ==
  { [k \in 1..Len(attrs) |-> NextTask(k, attrs[k], now)] :
      attrs \in ListsUpTo(NextAttrs, MaxNextLen), now \in Timestamps }

InitNext ==
  /\ \E tasks \in NextLedgers :
       file = [exists |-> TRUE, content |-> Serialize(tasks)]
  /\ before = NoFile
  /\ last = Call("none", <<>>, FALSE, <<>>, NoTask, "void")
  /\ input = <<>>
  /\ output = NotRun
  /\ calls = NoCalls
  /\ InitHost

NextNext == getNextTask

SpecNext == InitNext /\ [][NextNext]_vars

(* ------------------------------------------------------------------ *)
(* Selection between toggles: a ledger of up to MaxBlockedLen pending   *)
(* tasks, some waiting for a task that does not exist, is toggled and   *)
(* asked for the next task                                               *)
(* ------------------------------------------------------------------ *)
MaxBlockedLen == 3

BlockedAttrs ==
  { [priority |-> "high", dependencies |-> <<GhostId>>, isCompleted |-> FALSE],
    [priority |-> "medium", dependencies |-> <<>>, isCompleted |-> FALSE],
    [priority |-> "high", dependencies |-> <<NextIds[1]>>, isCompleted |-> FALSE] }

BlockedLedgers ==
  { [k \in 1..Len(attrs) |-> NextTask(k, attrs[k], now)] :
      attrs \in ListsUpTo(BlockedAttrs, MaxBlockedLen), now \in Timestamps }

\* the taskId argument of toggleTaskCompletion: the id of a place of the
\* ledger, or the id no task has
BlockedToggleIds == Range(NextIds) \cup {GhostId}

InitBlocked ==
  /\ \E tasks \in BlockedLedgers :
       file = [exists |-> TRUE, content |-> Serialize(tasks)]
  /\ before = NoFile
  /\ last = Call("none", <<>>, FALSE, <<>>, NoTask, "void")
  /\ input = <<>>
  /\ output = NotRun
  /\ calls = NoCalls
  /\ InitHost

NextBlocked ==
  \/ getNextTask
  \/ \E taskId \in BlockedToggleIds, isCompleted \in BOOLEAN :
       toggleTaskCompletion(taskId, isCompleted)

SpecBlocked == InitBlocked /\ [][NextBlocked]_vars

(* ------------------------------------------------------------------ *)
(* Interleaving: one createTask and one updateTask run on the same path *)
(* without serialization; each reads the file at one await and writes   *)
(* it at a later one                                                     *)
(* ------------------------------------------------------------------ *)
\* the ledger the calls start from: bootstrapped, with one task
RaceLedger ==
  Splice(Skeleton,
         NewTask(<<"a">>, <<"d">>, "high", <<>>,
                 <<"8", "a", "5", "b", "4", "f", "0", "0", "-">>,
                 <<"2025-04-12T16:47:17.947Z">>))

InitRace ==
  /\ file = [exists |-> TRUE, content |-> RaceLedger]
  /\ before = NoFile
  /\ last = Call("none", <<>>, FALSE, <<>>, NoTask, "void")
  /\ input = <<>>
  /\ output = NotRun
  /\ calls = NoCalls
  /\ InitHost

\* createTask up to the await of fs.readFile (lines 83-97)
createTaskRead(title, description, priority, dependencies, uuid, now) ==
  /\ calls.create.pc = "idle"
  /\ file.exists
  /\ calls' = [calls EXCEPT
                 !.create = [pc |-> "read", content |-> file.content,
                             task |-> NewTask(title, description, priority,
                                              dependencies, uuid, now)],
                 !.order = Append(@, "createTaskRead")]
  /\ UNCHANGED <<storeVars, codecVars, hostVars>>

\* createTask from the splice to the return (lines 100-115)
createTaskWrite ==
  /\ calls.create.pc = "read"
  /\ before' = file
  /\ file' = [exists |-> TRUE,
              content |-> Splice(calls.create.content, calls.create.task)]
  /\ last' = Call("createTask", <<>>, FALSE, <<>>, calls.create.task, "task")
  /\ calls' = [calls EXCEPT !.create.pc = "done",
                            !.order = Append(@, "createTaskWrite")]
  /\ UNCHANGED <<codecVars, hostVars>>

\* updateTask up to the await of parseTasks, and the return of false when the
\* id is not found (lines 213-218)
updateTaskRead(taskId, updates) ==
  /\ calls.update.pc = "idle"
  /\ \E tasks \in {parseTasks(file)} :
       calls' = [calls EXCEPT
                   !.update = [pc |-> IF FindIndex(tasks, taskId) = 0
                                      THEN "done" ELSE "read",
                               tasks |-> tasks, taskId |-> taskId,
                               updates |-> updates,
                               ret |-> IF FindIndex(tasks, taskId) = 0
                                       THEN "false" ELSE "none"],
                   !.order = Append(@, "updateTaskRead")]
  /\ UNCHANGED <<storeVars, codecVars, hostVars>>

\* an updateTask that parses the file again when it writes
updateTaskWriteFresh ==
  /\ calls.update.pc = "read"
  /\ before' = file
  /\ \E tasks \in {parseTasks(file)} :
       file' = [exists |-> TRUE,
                content |-> Serialize(UpdatedTasks(tasks,
                                                   FindIndex(tasks, calls.update.taskId),
                                                   calls.update.updates))]
  /\ last' = Call("updateTask", calls.update.taskId, FALSE, calls.update.updates,
                  NoTask, "true")
  /\ calls' = [calls EXCEPT !.update.pc = "done", !.update.ret = "true",
                            !.order = Append(@, "updateTaskWrite")]
  /\ UNCHANGED <<codecVars, hostVars>>

\* updateTask from the merge to the return of true (lines 220-251)
updateTaskWrite ==
  /\ calls.update.pc = "read"
  /\ before' = file
  /\ file' = [exists |-> TRUE,
              content |-> Serialize(UpdatedTasks(calls.update.tasks,
                                                 FindIndex(calls.update.tasks,
                                                           calls.update.taskId),
                                                 calls.update.updates))]
  /\ last' = Call("updateTask", calls.update.taskId, FALSE, calls.update.updates,
                  NoTask, "true")
  /\ calls' = [calls EXCEPT !.update.pc = "done", !.update.ret = "true",
                            !.order = Append(@, "updateTaskWrite")]
  /\ UNCHANGED <<codecVars, hostVars>>

NextRace ==
  \/ \E r \in CreateRequests, uuid \in UUIDs, now \in Timestamps :
       createTaskRead(r.title, r.description, r.priority, r.dependencies,
                      uuid, now)
  \/ createTaskWrite
  \/ \E taskId \in UpdateIds, k \in 1..Len(UpdateRequests) :
       updateTaskRead(taskId, UpdateRequests[k])
  \/ updateTaskWrite

SpecRace == InitRace /\ [][NextRace]_vars

(* ------------------------------------------------------------------ *)
(* Damaged documents: a ledger of up to MaxDamagedLen blocks, some of   *)
(* them edited so that they no longer follow the template, is parsed    *)
(* ------------------------------------------------------------------ *)
MaxDamagedLen == 2

\* what an editor did to a block: nothing, put a word outside the enum on the
\* priority line, deleted the Created line, or deleted the closing fence
Damages == {"none", "priority", "created", "fence"}

Damaged(block, damage) ==
  LET p == IndexOf(block, PriorityLabel, 1)
      c == IndexOf(block, CreatedLabel, 1)
  IN  CASE damage = "none" -> block
        [] damage = "priority" -> [block EXCEPT ![p + 1] = "urgent"]
        [] damage = "created" ->
             SubSeq(block, 1, c - 3)
             \o SubSeq(block, IndexOf(block, Tick, c + 1) + 1, Len(block))
        [] damage = "fence" -> SubSeq(block, 1, Len(block) - 3)

\* the tasks the blocks are written from: every description is non-empty
DamagedEntries ==
  { [task |-> t, damage |-> d] :
      t \in {v \in TaskValues : v.description # <<>>}, d \in Damages }

DamagedDocument(entries) ==
  <<Header, NL, NL>>
  \o Join([i \in 1..Len(entries) |->
             Damaged(formatTaskAsMarkdown(entries[i].task), entries[i].damage)],
          <<NL, NL>>)
  \o <<NL, NL, Footer, NL>>

InitDamaged ==
  /\ InitStore
  /\ input \in ListsUpTo(DamagedEntries, MaxDamagedLen)
  /\ output = NotRun
  /\ calls = NoCalls
  /\ InitHost

WriteDamaged ==
  /\ ~file.exists
  /\ before' = file
  /\ file' = [exists |-> TRUE, content |-> DamagedDocument(input)]
  /\ last' = Call("edit", <<>>, FALSE, <<>>, NoTask, "void")
  /\ UNCHANGED <<codecVars, calls, hostVars>>

NextDamaged == WriteDamaged \/ ReadDocument

SpecDamaged == InitDamaged /\ [][NextDamaged]_vars

(* ------------------------------------------------------------------ *)
(* Reading before the ledger exists: parseTasks and getNextTask are     *)
(* called at any time, also before the file has been bootstrapped       *)
(* ------------------------------------------------------------------ *)
\* a call of parseTasks; the list it resolves to is kept in output
listTasks ==
  /\ before' = file
  /\ file' = file
  /\ last' = Call("parseTasks", <<>>, FALSE, <<>>, NoTask, "list")
  /\ output' = [done |-> TRUE, tasks |-> parseTasks(file)]
  /\ UNCHANGED <<input, calls, hostVars>>

NextRead ==
  \/ ensureTaskInfrastructure
  \/ \E r \in CreateRequests, uuid \in UUIDs, now \in Timestamps :
       createTask(r.title, r.description, r.priority, r.dependencies, uuid, now)
  \/ listTasks
  \/ getNextTask

SpecRead == Init /\ [][NextRead]_vars

(* ------------------------------------------------------------------ *)
(* Identifiers on their own: generateTaskId is applied to titles made   *)
(* of a prefix and up to MaxTitleTail further characters                *)
(* ------------------------------------------------------------------ *)
MaxTitleTail == 2

\* an upper-case and a lower-case letter, a digit, the underscore, a
\* punctuation mark, a letter outside ASCII and a blank
TitleChars == {"A", "a", "1", "_", "!", "é", SP}

\* no prefix, or one that leaves room for a single further character in the slug
TitlePrefixes == {<<>>, [i \in 1..(SlugMaxLen - 1) |-> "b"]}

IdTitles ==
  { prefix \o tail : prefix \in TitlePrefixes,
                     tail \in ListsUpTo(TitleChars, MaxTitleTail) }

InitId ==
  /\ InitStore
  /\ input \in IdTitles
  /\ output = NotRun
  /\ calls = NoCalls
  /\ InitHost

\* const id = generateTaskId(title), with the value randomUUID() returned
generateTaskIdCall ==
  /\ last.op = "none"
  /\ \E uuid \in UUIDs :
       last' = Call("generateTaskId", generateTaskId(input, uuid), FALSE, <<>>,
                    NoTask, "id")
  /\ UNCHANGED <<file, before, codecVars, calls, hostVars>>

NextId == generateTaskIdCall

SpecId == InitId /\ [][NextId]_vars

(* ------------------------------------------------------------------ *)
(* Priorities under a configured default: the process is started with   *)
(* DEFAULT_PRIORITY unset, empty, inside or outside the enum            *)
(* ------------------------------------------------------------------ *)
ConfiguredDefaults == {Undefined, "", "low", "urgent"}

PriorityRequests ==
  { [title |-> <<"a">>, description |-> <<"d">>, priority |-> p,
     dependencies |-> <<>>] : p \in {"high", "urgent", Undefined} }

\* updates as the updateTask tool forwards them: a priority of the enum
PriorityUpdates == { << <<"priority", p>> >> : p \in {"low", "high"} }

InitPriority ==
  /\ InitStore
  /\ input = <<>>
  /\ output = NotRun
  /\ calls = NoCalls
  /\ env \in ConfiguredDefaults
  /\ server = NoServer

NextPriority ==
  \/ ensureTaskInfrastructure
  \/ \E r \in PriorityRequests, uuid \in UUIDs, now \in Timestamps :
       createTask(r.title, r.description, r.priority, r.dependencies, uuid, now)
  \/ \E taskId \in UpdateIds, updates \in PriorityUpdates :
       updateTask(taskId, updates)

SpecPriority == InitPriority /\ [][NextPriority]_vars

(* ------------------------------------------------------------------ *)
(* A worker: it asks for the next task and completes the task it was    *)
(* given, on a ledger of up to MaxProgressLen pending tasks whose       *)
(* dependencies are ids of the ledger and form no cycle                 *)
(* ------------------------------------------------------------------ *)
MaxProgressLen == 3

\* the priority of each place: the later places outrank the first
ProgressPriorities == <<"low", "high", "medium", "high", "low">>

\* deps[k] is the set of places the task at place k depends on
Acyclic(deps, n) ==
  \E rank \in [1..n -> 1..n] :
    \A k \in 1..n : \A j \in deps[k] : rank[j] < rank[k]

DependencyGraphs(n) ==
  { deps \in [1..n -> SUBSET (1..n)] : Acyclic(deps, n) }

IdsOf(places, n) ==
  LET chosen == SelectSeq([k \in 1..n |-> k], LAMBDA k : k \in places)
  IN  [i \in 1..Len(chosen) |-> NextIds[chosen[i]]]

InitProgress ==
  /\ \E n \in 0..MaxProgressLen : \E deps \in DependencyGraphs(n), now \in Timestamps :
       file = [exists |-> TRUE,
               content |-> Serialize(
                 [k \in 1..n |->
                    NextTask(k, [priority |-> ProgressPriorities[k],
                                 dependencies |-> IdsOf(deps[k], n),
                                 isCompleted |-> FALSE], now)])]
  /\ before = NoFile
  /\ last = Call("none", <<>>, FALSE, <<>>, NoTask, "void")
  /\ input = <<>>
  /\ output = NotRun
  /\ calls = NoCalls
  /\ InitHost

\* the worker asks for the next task
workerAsks ==
  /\ last.op # "getNextTask"
  /\ getNextTask

\* the worker completes the task it was given
workerCompletes ==
  /\ last.op = "getNextTask"
  /\ last.ret = "task"
  /\ toggleTaskCompletion(last.task.id, TRUE)

NextProgress == workerAsks \/ workerCompletes

\* ENABLED <<NextProgress>>_vars as a predicate on the worker's last call: it
\* has not asked yet, or it holds a task to complete
WorkerCanStep == last.op # "getNextTask" \/ last.ret = "task"

\* WF_vars(NextProgress) with the enabling condition written out: the worker
\* keeps going, a step it can take is taken
WorkerFairness == []<>(~WorkerCanStep) \/ []<><<NextProgress>>_vars

SpecProgress == InitProgress /\ [][NextProgress]_vars /\ WorkerFairness

(* ------------------------------------------------------------------ *)
(* Interleaving of a toggle: one createTask and one                     *)
(* toggleTaskCompletion run on the same path, each split at its awaits  *)
(* ------------------------------------------------------------------ *)
\* toggleTaskCompletion up to the await of fs.readFile (line 126)
toggleTaskCompletionRead(taskId, isCompleted) ==
  /\ calls.toggle.pc = "idle"
  /\ file.exists
  /\ calls' = [calls EXCEPT
                 !.toggle = [pc |-> "read", content |-> file.content,
                             taskId |-> taskId, isCompleted |-> isCompleted,
                             ret |-> "none"],
                 !.order = Append(@, "toggleTaskCompletionRead")]
  /\ UNCHANGED <<storeVars, codecVars, hostVars>>

\* a toggleTaskCompletion that patches the file as it is when it writes
toggleTaskCompletionWriteFresh ==
  /\ calls.toggle.pc = "read"
  /\ \E newContent \in {ReplaceFrom(file.content, 1, calls.toggle.taskId,
                                    IF calls.toggle.isCompleted THEN "x" ELSE SP)} :
       /\ before' = file
       /\ file' = [exists |-> TRUE, content |-> newContent]
       /\ last' = Call("toggleTaskCompletion", calls.toggle.taskId,
                       calls.toggle.isCompleted, <<>>, NoTask,
                       IF newContent = file.content THEN "false" ELSE "true")
       /\ calls' = [calls EXCEPT
                      !.toggle.pc = "done",
                      !.toggle.ret = IF newContent = file.content
                                     THEN "false" ELSE "true",
                      !.order = Append(@, "toggleTaskCompletionWrite")]
  /\ UNCHANGED <<codecVars, hostVars>>

\* toggleTaskCompletion from the replace to the return (lines 129-142): the
\* content it read is patched; false without a write when nothing changed
toggleTaskCompletionWrite ==
  /\ calls.toggle.pc = "read"
  /\ \E newContent \in {ReplaceFrom(calls.toggle.content, 1, calls.toggle.taskId,
                                    IF calls.toggle.isCompleted THEN "x" ELSE SP)} :
       /\ before' = file
       /\ file' = IF newContent = calls.toggle.content THEN file
                  ELSE [exists |-> TRUE, content |-> newContent]
       /\ last' = Call("toggleTaskCompletion", calls.toggle.taskId,
                       calls.toggle.isCompleted, <<>>, NoTask,
                       IF newContent = calls.toggle.content THEN "false" ELSE "true")
       /\ calls' = [calls EXCEPT
                      !.toggle.pc = "done",
                      !.toggle.ret = IF newContent = calls.toggle.content
                                     THEN "false" ELSE "true",
                      !.order = Append(@, "toggleTaskCompletionWrite")]
  /\ UNCHANGED <<codecVars, hostVars>>

NextToggleRace ==
  \/ \E r \in CreateRequests, uuid \in UUIDs, now \in Timestamps :
       createTaskRead(r.title, r.description, r.priority, r.dependencies,
                      uuid, now)
  \/ createTaskWrite
  \/ \E taskId \in TaskIdArgs, isCompleted \in BOOLEAN :
       toggleTaskCompletionRead(taskId, isCompleted)
  \/ toggleTaskCompletionWrite

SpecToggleRace == InitRace /\ [][NextToggleRace]_vars

(* ------------------------------------------------------------------ *)
(* main.ts: the express routes. Connections are numbered in the order   *)
(* of their GET /sse; up to MaxConnections are opened                   *)
(* ------------------------------------------------------------------ *)
MaxConnections == 3

\* app.get("/sse"), with the first transport kept once there is one
getSseKeepingFirst ==
  /\ server.opened < MaxConnections
  /\ server' = [server EXCEPT
                  !.transport = IF @ = 0 THEN server.opened + 1 ELSE @,
                  !.opened = @ + 1,
                  !.open = @ \cup {server.opened + 1}]
  /\ UNCHANGED <<storeVars, codecVars, calls, env>>

\* app.get("/sse"): transport = new SSEServerTransport("/messages", res)
getSse ==
  /\ server.opened < MaxConnections
  /\ server' = [server EXCEPT
                  !.transport = server.opened + 1,
                  !.opened = @ + 1,
                  !.open = @ \cup {server.opened + 1}]
  /\ UNCHANGED <<storeVars, codecVars, calls, env>>

\* a client closes its event stream; main.ts registers no handler for it
closeSse ==
  /\ \E c \in server.open : server' = [server EXCEPT !.open = @ \ {c}]
  /\ UNCHANGED <<storeVars, codecVars, calls, env>>

\* app.post("/messages"): 400 'No transport' while transport is undefined,
\* transport.handlePostMessage(req, res) otherwise; the reply records the
\* requests seen and the connections open at the time
postMessages ==
  /\ server' = [server EXCEPT
                  !.reply = IF server.transport = 0
                            THEN [status |-> "400 No transport", to |-> 0,
                                  seen |-> server.opened, open |-> server.open]
                            ELSE [status |-> "handlePostMessage",
                                  to |-> server.transport,
                                  seen |-> server.opened, open |-> server.open]]
  /\ UNCHANGED <<storeVars, codecVars, calls, env>>

NextServer == getSse \/ closeSse \/ postMessages

SpecServer == Init /\ [][NextServer]_vars

(* ------------------------------------------------------------------ *)
(* Properties                                                           *)
(* ------------------------------------------------------------------ *)
StoreOps == {"createTask", "toggleTaskCompletion", "updateTask"}

\* the texts that stand between each occurrence of open and the occurrence
\* of close that follows it, in order, from position p on
RECURSIVE TextsBetween(_, _, _, _)
TextsBetween(c, open, close, p) ==
  LET s == IndexOf(c, open, p)
      q == IF s = 0 THEN 0 ELSE IndexOf(c, close, s + 1)
  IN  IF q = 0 THEN <<>>
      ELSE <<SubSeq(c, s + 1, q - 1)>> \o TextsBetween(c, open, close, q + 1)

\* what the blocks of a document show, block by block, whether or not the
\* block parses: id, title, created stamp, and the one line between the fences
BlockIds(c) == TextsBetween(c, IdOpen, IdClose, 1)

BlockTitles(c) == TextsBetween(c, CheckClose, IdOpen, 1)

BlockCreated(c) == TextsBetween(c, CreatedLabel, Tick, 1)

RECURSIVE BlockDescriptionsFrom(_, _)
BlockDescriptionsFrom(c, p) ==
  LET s == IndexOf(c, Fence, p)
      q == IF s = 0 THEN 0 ELSE IndexOf(c, Fence, s + 1)
  IN  IF q = 0 THEN <<>>
      ELSE <<SubSeq(c, s + 3, q - 3)>> \o BlockDescriptionsFrom(c, q + 1)

BlockDescriptions(c) == BlockDescriptionsFrom(c, 1)

Pairs(ids, stamps) == {<<ids[k], stamps[k]>> : k \in 1..Len(ids)}

Identities(c) == Pairs(BlockIds(c), BlockCreated(c))

\* block i of the file shows the id and created of the record and the
\* fields the last call supplied
RecordUpdated(record, i) ==
  /\ i \in 1..NumBlocks(file.content)
  /\ BlockIds(file.content)[i] = record.id
  /\ BlockCreated(file.content)[i] = record.created
  /\ HasKey(last.updates, "title") =>
       BlockTitles(file.content)[i] = ValueOf(last.updates, "title")
  /\ HasKey(last.updates, "description") =>
       BlockDescriptions(file.content)[i] = ValueOf(last.updates, "description")

\* the id text of the block whose checkbox opens at position p
BlockIdAt(c, p) ==
  LET ids == TextsBetween(c, IdOpen, IdClose, p)
  IN  IF ids = <<>> THEN <<>> ELSE ids[1]

\* the document with the checkbox of every block of the given id set to status
WithCheckbox(c, id, status) ==
  [k \in 1..Len(c) |->
     IF k > 1 /\ c[k] \in {SP, "x"} /\ c[IF k > 1 THEN k - 1 ELSE 1] = CheckOpen
        /\ BlockIdAt(c, k) = id
     THEN status ELSE c[k]]

\* C1: round trip: parsing the document serialized from a list of well-formed
\* tasks yields the same list, field by field and in the same order.
C1_RoundTrip ==
  output.done => output.tasks = input

\* C2: the task createTask returned is in the next list(), with the same id,
\* title, description, priority, dependencies and created, not completed.
C2_CreatedTaskIsListed ==
  (last.op = "createTask" /\ last.ret = "task") =>
    \E tasks \in {parseTasks(file)} :
      \E k \in 1..Len(tasks) : tasks[k] = last.task

\* C3: no create, toggle or update removes a block of the document: every
\* block of the file before the operation is still there after it.
C3_NoBlockRemoved ==
  (last.op \in StoreOps /\ before.exists) =>
    /\ NumBlocks(file.content) >= NumBlocks(before.content)
    /\ Range(BlockIds(before.content)) \subseteq Range(BlockIds(file.content))

\* C4: identity is preserved: after any store operation every block carries
\* the id and created of a block that was there before it (or those of the
\* task createTask just returned), and updateTask leaves id and created of its
\* target as they were, also when the fields carry id and created entries,
\* while the fields supplied are what the block shows afterwards.
C4_UpdatePreservesIdentity ==
  (last.op \in StoreOps /\ before.exists) =>
    /\ Identities(file.content) \subseteq
         Identities(before.content) \cup
           (IF last.op = "createTask" /\ last.ret = "task"
            THEN {<<last.task.id, last.task.created>>} ELSE {})
    /\ (last.op = "updateTask" /\ last.ret = "true") =>
         \E old \in {parseTasks(before)} :
           \E i \in {FindIndex(old, last.taskId)} :
             i # 0 /\ RecordUpdated(old[IF i = 0 THEN 1 ELSE i], i)

\* an update whose fields carry id and created entries has been applied
C4_Witness ==
  /\ last.op = "updateTask" /\ last.ret = "true"
  /\ HasKey(last.updates, "id") /\ HasKey(last.updates, "created")
  /\ last.taskId \in Range(BlockIds(file.content))
  /\ ValueOf(last.updates, "title") \in Range(BlockTitles(file.content))

\* C5: toggleTaskCompletion returns true if and only if the ledger holds a
\* block with that id, whatever the block's state and the value requested.
C5_ToggleTrueIffIdPresent ==
  (last.op = "toggleTaskCompletion" /\ before.exists) =>
    (last.ret = "true" <=> last.taskId \in Range(BlockIds(before.content)))

\* C6: toggleTaskCompletion is a patch matched on the literal id: the document
\* after the call is the document before it with the checkbox of the blocks
\* whose id is the argument set as requested, and nothing else changed.
C6_ToggleIsLiteralPatch ==
  (last.op = "toggleTaskCompletion" /\ before.exists) =>
    file.content = WithCheckbox(before.content, last.taskId,
                                IF last.flag THEN "x" ELSE SP)

\* C7: toggling an id no block has returns false, raises nothing and leaves
\* the file as it was.
C7_ToggleUnknownIdIsNoOp ==
  (/\ last.op = "toggleTaskCompletion" /\ before.exists
   /\ last.taskId \notin Range(BlockIds(before.content))) =>
    (last.ret = "false" /\ file = before)

\* C8: on an existing file updateTask returns false and writes nothing when no
\* parsed record has the id; it returns true only when a parsed record has the
\* id, and then the file holds as many blocks as there were records, with the
\* block of that record showing the fields supplied.
C8_UpdateFalseIffIdAbsent ==
  (last.op = "updateTask" /\ before.exists) =>
    \E old \in {parseTasks(before)} :
      /\ last.ret \in {"true", "false"}
      /\ (\A k \in 1..Len(old) : old[k].id # last.taskId) =>
           (last.ret = "false" /\ file = before)
      /\ last.ret = "true" =>
           /\ NumBlocks(file.content) = Len(old)
           /\ \E k \in 1..Len(old) :
                /\ old[k].id = last.taskId
                /\ \A j \in 1..(k - 1) : old[j].id # last.taskId
                /\ RecordUpdated(old[k], k)

\* an update of an id that a ledger with tasks does not list
C8_Witness ==
  /\ last.op = "updateTask" /\ last.ret = "false" /\ before.exists
  /\ parseTasks(before) # <<>>
  /\ \A t \in Range(parseTasks(before)) : t.id # last.taskId

\* C9, as claimed: updateTask on a path where no file exists fails with an
\* I/O error instead of returning false.
C9_UpdateMissingFileThrows ==
  (last.op = "updateTask" /\ ~before.exists) => last.ret = "throws"

\* C9, amended: updateTask on a path where no file exists returns false, as for
\* an id that is not found, and leaves the path without a file.
C9_UpdateMissingFileReturnsFalse ==
  (last.op = "updateTask" /\ ~before.exists) =>
    (last.ret = "false" /\ ~file.exists)

\* an update called on a path where no file exists
C9_Witness ==
  last.op = "updateTask" /\ ~before.exists

\* C10: createTask and toggleTaskCompletion on a path where no file exists
\* fail with the read error and do not create the file.
C10_MissingFileThrows ==
  (last.op \in {"createTask", "toggleTaskCompletion"} /\ ~before.exists) =>
    (last.ret = "throws" /\ ~file.exists)

\* a create called on a path where no file exists
C10_Witness ==
  last.op = "createTask" /\ ~before.exists /\ last.ret = "throws"

\* the positions of the pieces of a document that are the given piece
Positions(c, piece) == {k \in 1..Len(c) : c[k] = piece}

\* where the id line of the block createTask last wrote ends
NewBlockEnd(c) ==
  {k \in Positions(c, IdClose) :
     \E s \in Positions(c, IdOpen) :
       s < k /\ SubSeq(c, s + 1, k - 1) = last.task.id}

\* C11: create preserves the footer: after each createTask on a bootstrapped
\* ledger the footer sentinel appears exactly once in the document, and after
\* the block just inserted.
C11_FooterOnceAfterBlock ==
  (last.op = "createTask" /\ last.ret = "task") =>
    /\ Cardinality(Positions(file.content, Footer)) = 1
    /\ \A f \in Positions(file.content, Footer) :
         \E k \in NewBlockEnd(file.content) : k < f

\* the places of the tasks of a list that are pending with every dependency
\* the id of a completed task of the list
Candidates(tasks) ==
  {k \in 1..Len(tasks) :
     /\ ~tasks[k].isCompleted
     /\ \A d \in Range(tasks[k].dependencies) :
          Trim(d) = <<>> \/
          \E j \in 1..Len(tasks) : tasks[j].id = Trim(d) /\ tasks[j].isCompleted}

Outranks(p, q) ==
  \/ p = "high" /\ q \in {"medium", "low"}
  \/ p = "medium" /\ q = "low"

Returned == last.op = "getNextTask" /\ last.ret = "task"

\* C12: getNextTask returns only candidates: the task returned is a task of
\* the ledger that is not completed, and every non-empty trimmed entry of its
\* dependencies is the id of a completed task of the ledger.
C12_NextIsCandidate ==
  Returned =>
    \E tasks \in {parseTasks(file)} :
      /\ ~last.task.isCompleted
      /\ \E k \in 1..Len(tasks) : tasks[k] = last.task
      /\ \A d \in Range(last.task.dependencies) :
           Trim(d) = <<>> \/
           \E j \in 1..Len(tasks) : tasks[j].id = Trim(d) /\ tasks[j].isCompleted

\* a task with a dependency is returned, next to a pending task that is blocked
C12_Witness ==
  /\ Returned
  /\ last.task.dependencies # <<>>
  /\ \E tasks \in {parseTasks(file)} :
       \E k \in 1..Len(tasks) :
         ~tasks[k].isCompleted /\ k \notin Candidates(tasks)

\* C13: getNextTask returns null if and only if no task is a candidate: on the
\* empty ledger, when all tasks are completed, when every pending task is
\* blocked; with a candidate it returns a task.
C13_NullIffNoCandidate ==
  last.op = "getNextTask" =>
    (last.ret = "null" <=> Candidates(parseTasks(file)) = {})

\* null is returned on a ledger with pending tasks, all of them blocked
C13_Witness ==
  /\ last.op = "getNextTask" /\ last.ret = "null"
  /\ \E tasks \in {parseTasks(file)} :
       \E k \in 1..Len(tasks) : ~tasks[k].isCompleted

\* C14: priority selection: no candidate has a strictly higher priority than
\* the task getNextTask returns (high over medium over low).
C14_HighestPriority ==
  Returned =>
    \E tasks \in {parseTasks(file)} :
      \A k \in Candidates(tasks) :
        ~Outranks(tasks[k].priority, last.task.priority)

\* the task returned stands after a candidate of lower priority
C14_Witness ==
  /\ Returned
  /\ \E tasks \in {parseTasks(file)} :
       \E j, k \in Candidates(tasks) :
         /\ j < k /\ tasks[k] = last.task
         /\ Outranks(tasks[k].priority, tasks[j].priority)

\* C15: tie-break by document order: among the candidates of the priority of
\* the task returned, the task returned is the earliest in the document.
C15_EarliestOfTied ==
  Returned =>
    \E tasks \in {parseTasks(file)} :
      \E i \in Candidates(tasks) :
        /\ tasks[i] = last.task
        /\ \A k \in Candidates(tasks) :
             tasks[k].priority = last.task.priority => i <= k

\* two candidates are tied at the top with a candidate of lower priority
\* between them, and the first is returned
C15_Witness ==
  /\ Returned
  /\ \E tasks \in {parseTasks(file)} :
       \E i, j, k \in Candidates(tasks) :
         /\ i < j /\ j < k /\ tasks[i] = last.task
         /\ tasks[k].priority = tasks[i].priority
         /\ Outranks(tasks[i].priority, tasks[j].priority)

\* C16: unreachable dependency: a pending task that lists an id no task of the
\* ledger has is never returned by getNextTask, in any state that toggles of
\* the tasks lead to, while a pending task without dependencies makes
\* getNextTask return a task.
C16_GhostNeverReturned ==
  last.op = "getNextTask" =>
    \E tasks \in {parseTasks(file)} :
      /\ last.ret = "task" =>
           \A d \in Range(last.task.dependencies) :
             d \in Range(BlockIds(file.content))
      /\ (\E k \in 1..Len(tasks) :
            ~tasks[k].isCompleted /\ tasks[k].dependencies = <<>>) =>
           last.ret = "task"

\* after a toggle completed a task, a task of medium priority is returned
\* while a pending task of high priority waits for the id no task has
C16_Witness ==
  /\ Returned
  /\ last.task.priority = "medium"
  /\ \E tasks \in {parseTasks(file)} :
       /\ \E k \in 1..Len(tasks) : tasks[k].isCompleted
       /\ \E k \in 1..Len(tasks) :
            /\ ~tasks[k].isCompleted /\ tasks[k].priority = "high"
            /\ tasks[k].dependencies = <<GhostId>>

\* the place of a step in the order of steps, 0 when it has not been taken
StepAt(step) ==
  IF \E k \in 1..Len(calls.order) : calls.order[k] = step
  THEN Min({k \in 1..Len(calls.order) : calls.order[k] = step}) ELSE 0

\* updateTask read before createTask wrote and wrote after it; both returned
UpdateAroundCreate ==
  /\ calls.create.pc = "done" /\ calls.update.pc = "done"
  /\ StepAt("updateTaskRead") < StepAt("createTaskWrite")
  /\ StepAt("createTaskWrite") < StepAt("updateTaskWrite")

\* C17: lost update under interleaving: when updateTask reads before createTask
\* writes and writes after it, both calls report success and the final
\* document does not hold the block of the task createTask returned.
C17_CreateLostUnderInterleaving ==
  UpdateAroundCreate =>
    /\ calls.update.ret = "true"
    /\ last.op = "updateTask" /\ last.ret = "true"
    /\ NumBlocks(file.content) = NumBlocks(RaceLedger)
    /\ calls.create.task.id # calls.update.taskId =>
         calls.create.task.id \notin Range(BlockIds(file.content))

\* the interleaving with a task created under an id of its own
C17_Witness ==
  /\ UpdateAroundCreate
  /\ calls.create.task.id # calls.update.taskId
  /\ calls.create.task.id \notin Range(BlockIds(file.content))

\* C18: an invalid priority is coerced, not rejected: createTask with a
\* priority outside high, medium, low, or with none, succeeds and the task
\* carries the default priority; with a valid priority the task keeps it.
C18_InvalidPriorityCoerced ==
  (last.op = "createTask" /\ before.exists) =>
    /\ last.ret = "task"
    /\ last.task.priority =
         IF ValueOf(last.updates, "priority") \in {"high", "medium", "low"}
         THEN ValueOf(last.updates, "priority") ELSE DEFAULT_PRIORITY

\* a create with a priority outside the enum has returned its task
C18_Witness ==
  /\ last.op = "createTask" /\ last.ret = "task"
  /\ ValueOf(last.updates, "priority") \notin {"high", "medium", "low", Undefined}
  /\ last.task.priority = DEFAULT_PRIORITY

\* C19: id uniqueness: in every ledger reached from the bootstrap by create,
\* toggle and update, no two blocks have the same id, whatever the titles and
\* whatever the random suffix turns out to be.
C19_IdsUnique ==
  file.exists =>
    \E ids \in {BlockIds(file.content)} :
      \A i, j \in 1..Len(ids) : i # j => ids[i] # ids[j]

\* C20: ensureTaskInfrastructure is an idempotent bootstrap: on a missing file
\* it writes the skeleton, which holds no block and lists no task; on an
\* existing file it changes nothing, whatever the file holds.
C20_EnsureIdempotent ==
  last.op = "ensureTaskInfrastructure" =>
    /\ file.exists
    /\ before.exists => file = before
    /\ ~before.exists =>
         /\ file.content = <<Header, NL, NL, Footer, NL>>
         /\ NumBlocks(file.content) = 0
         /\ parseTasks(file) = <<>>

\* the bootstrap was called on a ledger that holds task blocks
C20_Witness ==
  /\ last.op = "ensureTaskInfrastructure"
  /\ before.exists
  /\ NumBlocks(before.content) > 0
  /\ NumBlocks(file.content) = NumBlocks(before.content)

\* the tasks of the entries whose block was left as written
Undamaged(entries) ==
  LET kept == SelectSeq(entries, LAMBDA e : e.damage = "none")
  IN  [k \in 1..Len(kept) |-> kept[k].task]

\* C21: lenient parse: of a document in which some blocks do not follow the
\* template, parseTasks returns exactly the tasks of the blocks that do, in
\* document order and with their own field values; a damaged block takes
\* nothing but itself out of the result.
C21_LenientParse ==
  output.done => output.tasks = Undamaged(input)

HexDigits == Digits \cup {"a", "b", "c", "d", "e", "f"}

\* the slug and the suffix of an id: what stands before and after its last
\* underscore
SlugOf(id) == SubSeq(id, 1, Len(id) - SuffixLen - 1)
SuffixOf(id) == SubSeq(id, Len(id) - SuffixLen + 1, Len(id))

\* every run of blanks of a text replaced by one underscore: a blank that
\* starts a run becomes the underscore, a blank that continues one is dropped
RunsToUnderscore(w) ==
  LET marked == [i \in 1..Len(w) |->
                   IF w[i] # SP THEN w[i]
                   ELSE IF i > 1 /\ w[i - 1] = SP THEN "" ELSE "_"]
  IN  SelectSeq(marked, LAMBDA t : t # "")

LowerCased(w) == [i \in 1..Len(w) |-> IF w[i] = "A" THEN "a" ELSE w[i]]

FirstChars(w, n) == [i \in 1..(IF Len(w) < n THEN Len(w) ELSE n) |-> w[i]]

\* the slug with letters (of any alphabet), digits and blanks kept
SlugOfLettersAndDigits(title) ==
  FirstChars(
    RunsToUnderscore(
      SelectSeq(LowerCased(title), LAMBDA t : t \in {"a", "b", "é", "1", SP})),
    15)

\* the slug with ASCII letters, digits, the underscore and blanks kept
SlugOfWordChars(title) ==
  FirstChars(
    RunsToUnderscore(
      SelectSeq(LowerCased(title), LAMBDA t : t \in {"a", "b", "1", "_", SP})),
    15)

IdWellFormed(id) ==
  /\ Len(id) >= SuffixLen + 1
  /\ id[Len(id) - SuffixLen] = "_"
  /\ \A k \in 1..SuffixLen : SuffixOf(id)[k] \in HexDigits
  /\ Len(SlugOf(id)) <= 15

\* C23 as stated: the id is slug, underscore, 8 hex characters, and the slug is
\* the lower-cased title with every character other than letters, digits and
\* whitespace removed, whitespace runs turned into one underscore, cut to 15.
C23_SlugOfLettersDigitsSpace ==
  last.op = "generateTaskId" =>
    /\ last.ret = "id"
    /\ IdWellFormed(last.taskId)
    /\ SlugOf(last.taskId) = SlugOfLettersAndDigits(input)

\* C23, amended: the id is slug, underscore, 8 hex characters, and the slug is
\* the lower-cased title with every character other than ASCII letters, digits,
\* the underscore and whitespace removed, whitespace runs turned into one
\* underscore, cut to 15; every title, the empty one included, yields an id.
C23_SlugOfWordCharsAndSpace ==
  last.op = "generateTaskId" =>
    /\ last.ret = "id"
    /\ IdWellFormed(last.taskId)
    /\ SlugOf(last.taskId) = SlugOfWordChars(input)

\* a title whose slug is cut inside a run of kept characters, with an
\* underscore and a removed character in it
C23_Witness ==
  /\ last.op = "generateTaskId"
  /\ Len(input) > SlugMaxLen
  /\ input[Len(input) - 1] = "_" /\ input[Len(input)] = "!"
  /\ Len(SlugOf(last.taskId)) = SlugMaxLen

\* the value the claim gives the target of an update: the fields supplied
\* (other than id and created, which no update carries) replaced, the rest kept
Supplied(task, updates) ==
  [key \in DOMAIN task |->
     IF HasKey(updates, key) /\ key \notin {"id", "created"}
     THEN ValueOf(updates, key) ELSE task[key]]

OnlyTargetChanged(old, new, i, updates) ==
  /\ Len(new) = Len(old)
  /\ \A k \in 1..Len(old) :
       k <= Len(new) /\ new[k] = (IF k = i THEN Supplied(old[k], updates) ELSE old[k])

\* C24: after an update that returned true, the list has the length and order
\* it had, every other task is equal field by field to what it was, and the
\* target differs from what it was exactly in the fields supplied.
C24_UpdateChangesOnlyTarget ==
  (last.op = "updateTask" /\ last.ret = "true") =>
    OnlyTargetChanged(parseTasks(before), parseTasks(file),
                      FindIndex(parseTasks(before), last.taskId), last.updates)

\* C25: after a create that returned a task, the list is the list before it
\* with the new task added as its last element: every task listed before keeps
\* its place and all its field values, whatever the titles and descriptions of
\* the ledger hold.
C25_CreateAppends ==
  (last.op = "createTask" /\ last.ret = "task") =>
    parseTasks(file) = Append(parseTasks(before), last.task)

\* the word each block of a document shows on its priority line
BlockPriorities(c) == {c[k + 1] : k \in Positions(c, PriorityLabel)}

\* C26: for every priority supplied and every configured default, the task
\* createTask returns and every block that createTask or updateTask writes has
\* a priority of high, medium, low.
C26_PriorityInEnum ==
  /\ (last.op = "createTask" /\ last.ret = "task") =>
       last.task.priority \in {"high", "medium", "low"}
  /\ (last.op \in {"createTask", "updateTask"} /\ file.exists) =>
       BlockPriorities(file.content) \subseteq {"high", "medium", "low"}

\* the places of a list whose task is pending
Pending(tasks) == {k \in 1..Len(tasks) : ~tasks[k].isCompleted}

\* the task just returned is pending and each of its dependencies is the id
\* of a completed task
ReturnedInOrder ==
  (last.op = "getNextTask" /\ last.ret = "task") =>
    \E tasks \in {parseTasks(file)} :
      /\ \E k \in Pending(tasks) : tasks[k] = last.task
      /\ \A d \in 1..Len(last.task.dependencies) :
           \E j \in 1..Len(tasks) :
             tasks[j].id = last.task.dependencies[d] /\ tasks[j].isCompleted

\* null is returned only when no task is pending
NullOnlyWhenDone ==
  (last.op = "getNextTask" /\ last.ret = "null") =>
    \E tasks \in {parseTasks(file)} : Pending(tasks) = {}

AllDone ==
  /\ last.op = "getNextTask" /\ last.ret = "null"
  /\ \E tasks \in {parseTasks(file)} : Pending(tasks) = {}

\* C27: on a ledger whose dependencies are ids of its tasks and form no cycle,
\* getNextTask returns a task whenever one is pending, never one with a
\* dependency still pending, and a worker that keeps asking and completing
\* what it is given ends with every task completed and null returned.
C27_Progress ==
  /\ [](ReturnedInOrder /\ NullOnlyWhenDone)
  /\ <>[]AllDone

\* a ledger of three tasks with a dependency has been worked off
C27_Witness ==
  /\ AllDone
  /\ \E tasks \in {parseTasks(file)} :
       Len(tasks) = 3 /\ tasks[1].dependencies = <<NextIds[2], NextIds[3]>>

\* toggleTaskCompletion read before createTask wrote and wrote after it; both
\* returned, the toggle with true
ToggleAroundCreate ==
  /\ calls.create.pc = "done" /\ calls.toggle.pc = "done"
  /\ calls.toggle.ret = "true"
  /\ StepAt("toggleTaskCompletionRead") < StepAt("createTaskWrite")
  /\ StepAt("createTaskWrite") < StepAt("toggleTaskCompletionWrite")

\* C28: toggleTaskCompletion is a read-modify-write of the whole file: when a
\* createTask completes between its read and its write, the toggle writes the
\* document it read with one checkbox patched, and the block of the task
\* createTask returned is not in the final document, although createTask
\* returned the task and the toggle returned true.
C28_ToggleWritesStaleSnapshot ==
  ToggleAroundCreate =>
    /\ last.op = "toggleTaskCompletion" /\ last.ret = "true"
    /\ calls.create.task.id # <<>>
    /\ file.content # calls.toggle.content
    /\ Len(file.content) = Len(calls.toggle.content)
    /\ \A k \in 1..Len(calls.toggle.content) :
         k <= Len(file.content) /\ file.content[k] # calls.toggle.content[k] =>
           k > 1 /\ calls.toggle.content[IF k > 1 THEN k - 1 ELSE 1] = CheckOpen
    /\ NumBlocks(file.content) = NumBlocks(RaceLedger)
    /\ calls.create.task.id \notin Range(BlockIds(RaceLedger)) =>
         calls.create.task.id \notin Range(BlockIds(file.content))

\* the interleaving with a task created under an id of its own
C28_Witness ==
  /\ ToggleAroundCreate
  /\ calls.create.task.id \notin Range(BlockIds(RaceLedger))
  /\ calls.create.task.id \notin Range(BlockIds(file.content))
  /\ NumBlocks(before.content) = NumBlocks(RaceLedger) + 1

\* C29: the document createTask writes is the document rebuilt from its own
\* list (header, blank line, blocks one blank line apart, blank line, footer),
\* so that an updateTask with no fields on any id of the list would write the
\* same text again.
C29_CreateWritesSerializedForm ==
  (last.op = "createTask" /\ last.ret = "task") =>
    \E tasks \in {parseTasks(file)} :
      /\ file.content = Serialize(tasks)
      /\ \A i \in 1..Len(tasks) :
           Serialize(UpdatedTasks(tasks, i, <<>>)) = file.content

\* C30: a POST /messages is answered 400 'No transport', and not handled,
\* exactly when no GET /sse had been received; after any GET /sse it is handed
\* to the transport of the connection opened last, whichever connections are
\* still open.
C30_PostGoesToLatestTransport ==
  server.reply.status # "none" =>
    /\ server.reply.status = "400 No transport" <=> server.reply.seen = 0
    /\ server.reply.seen > 0 =>
         /\ server.reply.status = "handlePostMessage"
         /\ server.reply.to = server.reply.seen

\* a POST handed to the transport of the latest connection after its client
\* had disconnected, with an earlier client still connected
C30_Witness ==
  /\ server.reply.status = "handlePostMessage"
  /\ server.reply.seen >= 2
  /\ server.reply.to \notin server.reply.open
  /\ 1 \in server.reply.open

====
